---- MODULE Spec2Model ----
(***************************************************************************)
(* A model of the chatter backend: the generic document repository         *)
(* (AbstractRepository over a Mongoose model), the UsersService on top of  *)
(* it, and the cookie/JWT session manager (AuthService).                   *)
(***************************************************************************)
EXTENDS Integers, Sequences, FiniteSets, TLC

(***************************************************************************)
(* Bounds of the model.                                                    *)
(***************************************************************************)
\* how many documents are ever created (ObjectIds generated)
MaxCreates == 2
\* how many requests run concurrently, and on how many documents
NumRequests == 2
ConcDocs == 1
\* the clock: its step in milliseconds, its first reading and how many
\* steps it makes
TickMs == 500
StartTicks == 117
MaxTicks == 6
\* how many migrations may be pending at startup, and how many requests
\* arrive during and after it
MaxMigrations == 2
MaxRequests == 3
\* how many logins are made
MaxLogins == 1
\* how many users the UsersService ever creates
MaxUsers == 1
\* how many distinct bcrypt salts the hash may draw
NumSalts == 1

(***************************************************************************)
(* Values.  A string-typed field (the password) is either a literal text,  *)
(* a bcrypt digest of a text, or (JavaScript only) a pending Promise that   *)
(* was put where a string was expected.                                    *)
(***************************************************************************)
Emails == {"a@x", "b@x"}
Plaintexts == {"pw1", "pw2"}
BcryptRounds == 10

Text(t) == [kind |-> "text", text |-> t]
PendingHash(t) == [kind |-> "promise", text |-> t]
BcryptHash(t, salt) ==
    [kind |-> "bcrypt", text |-> t, salt |-> salt, rounds |-> BcryptRounds]

Null == [null |-> TRUE]
Requests == 1..NumRequests
EmptyObject == [k \in {} |-> 0]

\* the paths of the User schema (AbstractEntity._id, email, password)
SchemaPaths == {"_id", "email", "password"}

VARIABLES
    coll,        \* the users collection: documents in insertion order
    idCounter,   \* the ObjectId generator's counter
    last,        \* the last call made and what it returned or threw
    createdIds,  \* history: the ids create has returned so far
    deletedIds,  \* history: the ids findOneAndDelete has removed so far
    pc,          \* per concurrent request: where its call stands
    call,        \* per concurrent request: the call, its command, its reply
    base,        \* history: the documents as the concurrent run created them
    now,         \* the wall clock, in milliseconds
    jwtExpiration, \* the configured JWT_EXPIRATION, in seconds
    cookie,      \* the Authentication cookie last set on a response
    issued,      \* history: the logins made and the tokens they issued
    authLast,    \* the last AuthService or verification call and its outcome
    bootPc,      \* where bootstrap stands
    pending,     \* how many migrations were pending when the process started
    applied,     \* how many of them have been applied
    dbClient,    \* the migration runner's database client
    served,      \* how many requests the application has served
    refused      \* how many requests came while nothing was listening

concVars == <<pc, call, base>>
authVars == <<now, jwtExpiration, cookie, issued, authLast>>
bootVars == <<bootPc, pending, applied, dbClient, served, refused>>
appVars == <<coll, idCounter, last, createdIds, deletedIds, concVars, authVars>>
vars == <<appVars, bootVars>>

(***************************************************************************)
(* Identifiers.  An ObjectId is the value the generator made; callers may  *)
(* also pass its 24-digit hex string, or any other string or number, where *)
(* an _id is expected, and Mongoose casts it.                              *)
(***************************************************************************)
IdHexLen == 24
HexDigits == <<"0", "1", "2", "3", "4", "5", "6", "7",
               "8", "9", "a", "b", "c", "d", "e", "f">>

Oid(n) == [t |-> "ObjectId", n |-> n]
Str(chars) == [t |-> "string", chars |-> chars]
Num(n) == [t |-> "number", n |-> n]

RECURSIVE Hex(_, _)
Hex(n, len) ==
    IF len = 0 THEN <<>>
    ELSE Append(Hex(n \div 16, len - 1), HexDigits[(n % 16) + 1])

\* ObjectId.toHexString()
ToHexString(id) == Str(Hex(id.n, IdHexLen))

HexChars == {HexDigits[i] : i \in 1..16}
HexValue == [ch \in HexChars |-> CHOOSE v \in 0..15 : HexDigits[v + 1] = ch]

\* the value of the first len digits of chars
RECURSIVE ParseHexPrefix(_, _)
ParseHexPrefix(chars, len) ==
    IF len = 0 THEN 0
    ELSE 16 * ParseHexPrefix(chars, len - 1) + HexValue[chars[len]]

ParseHex(chars) == ParseHexPrefix(chars, Len(chars))

IsHexString(chars) ==
    /\ Len(chars) = IdHexLen
    /\ \A i \in 1..Len(chars) : chars[i] \in HexChars

\* Mongoose's cast of a value to ObjectId: an ObjectId is kept, a string of
\* 24 hex digits is parsed, anything else (a number goes through toString)
\* is a CastError
CastObjectId(v) ==
    IF v.t = "ObjectId" THEN [ok |-> TRUE, id |-> v]
    ELSE IF v.t = "string" /\ IsHexString(v.chars)
    THEN [ok |-> TRUE, id |-> Oid(ParseHex(v.chars))]
    ELSE [ok |-> FALSE, id |-> Null]

(***************************************************************************)
(* The document store client (a Mongoose model bound to one collection).   *)
(***************************************************************************)
\* a generator that hands out the same identifier again
NewObjectId_Reused(ctr) == Oid(1)

\* new Types.ObjectId(): a fresh identifier from the generator's counter
NewObjectId(ctr) == Oid(ctr + 1)

\* a filter or a $set payload is a partial map from paths to values
Matches(doc, filter) ==
    \A k \in DOMAIN filter : k \in DOMAIN doc /\ doc[k] = filter[k]

MatchingIndexes(c, filter) == {i \in 1..Len(c) : Matches(c[i], filter)}

\* index of the first document matching the filter, 0 when there is none
FirstMatch(c, filter) ==
    LET m == MatchingIndexes(c, filter)
    IN  IF m = {} THEN 0 ELSE CHOOSE i \in m : \A j \in m : i <= j

RemoveAt(c, i) == SubSeq(c, 1, i - 1) \o SubSeq(c, i + 1, Len(c))

\* strict schema: paths the schema does not declare are dropped
Strict(obj) == [k \in (DOMAIN obj) \cap SchemaPaths |-> obj[k]]

\* a filter or a $set payload cast to the schema: the declared paths only,
\* _id as an ObjectId; the cast fails when _id is no ObjectId or the
\* password (a String path) is a Promise
Cast(obj) ==
    LET id == IF "_id" \in DOMAIN obj THEN CastObjectId(obj["_id"])
              ELSE [ok |-> TRUE, id |-> Null]
    IN  [ok |-> /\ id.ok
                /\ ~("password" \in DOMAIN obj
                     /\ obj["password"].kind = "promise"),
         value |-> [k \in (DOMAIN obj) \cap SchemaPaths |->
                       IF k = "_id" THEN id.id ELSE obj[k]]]

\* document.save(): insertOne; _id is the collection's unique key
ModelSave(c, doc) ==
    IF \E i \in 1..Len(c) : c[i]._id = doc._id
    THEN [status |-> "DuplicateKey", doc |-> Null, coll |-> c]
    ELSE [status |-> "ok", doc |-> doc, coll |-> Append(c, doc)]

\* Model.findOne(filter).lean(): the first match, or null
ModelFindOne(c, filter) ==
    LET q == Cast(filter)
        i == FirstMatch(c, q.value)
    IN  IF ~q.ok
        THEN [status |-> "CastError", doc |-> Null, coll |-> c]
        ELSE [status |-> "ok", doc |-> IF i = 0 THEN Null ELSE c[i],
              coll |-> c]

\* Model.find(filter).lean(): every match, in collection order
ModelFind(c, filter) ==
    LET q == Cast(filter)
    IN  IF ~q.ok
        THEN [status |-> "CastError", docs |-> <<>>, coll |-> c]
        ELSE [status |-> "ok",
              docs |-> SelectSeq(c, LAMBDA d : Matches(d, q.value)),
              coll |-> c]

\* a replacement: the paths not given are dropped from the document
ApplySet_Replace(doc, set) ==
    [k \in {"_id"} \cup (DOMAIN doc \cap DOMAIN set) |->
        IF k \in DOMAIN set THEN set[k] ELSE doc[k]]

\* $set of the given paths on one document
ApplySet(doc, set) ==
    [k \in DOMAIN doc |-> IF k \in DOMAIN set THEN set[k] ELSE doc[k]]

\* a find-and-modify with upsert: no match inserts the filter and the update
ModelFindOneAndUpdate_Upsert(c, filter, update, returnNew) ==
    LET q == Cast(filter)
        u == Cast(update)
        i == FirstMatch(c, q.value)
        updated == ApplySet(c[i], u.value)
        upserted == [k \in SchemaPaths |->
                        IF k \in DOMAIN u.value THEN u.value[k]
                        ELSE IF k \in DOMAIN q.value THEN q.value[k]
                        ELSE IF k = "_id" THEN Oid(0) ELSE Null]
    IN  IF ~q.ok \/ ~u.ok
        THEN [status |-> "CastError", doc |-> Null, coll |-> c]
        ELSE IF i = 0
        THEN [status |-> "ok",
              doc |-> IF returnNew THEN upserted ELSE Null,
              coll |-> Append(c, upserted)]
        ELSE IF "_id" \in DOMAIN u.value /\ u.value["_id"] # c[i]._id
        THEN [status |-> "ImmutableField", doc |-> Null, coll |-> c]
        ELSE [status |-> "ok",
              doc |-> IF returnNew THEN updated ELSE c[i],
              coll |-> [c EXCEPT ![i] = updated]]

\* a store that lets $set overwrite _id
ModelFindOneAndUpdate_MutableId(c, filter, update, returnNew) ==
    LET q == Cast(filter)
        u == Cast(update)
        i == FirstMatch(c, q.value)
        updated == ApplySet(c[i], u.value)
    IN  IF ~q.ok \/ ~u.ok
        THEN [status |-> "CastError", doc |-> Null, coll |-> c]
        ELSE IF i = 0
        THEN [status |-> "ok", doc |-> Null, coll |-> c]
        ELSE [status |-> "ok",
              doc |-> IF returnNew THEN updated ELSE c[i],
              coll |-> [c EXCEPT ![i] = updated]]

\* Model.findOneAndUpdate(filter, update, {new}).lean(): one atomic
\* find-and-modify; no upsert; _id is immutable in the store
ModelFindOneAndUpdate(c, filter, update, returnNew) ==
    LET q == Cast(filter)
        u == Cast(update)
        i == FirstMatch(c, q.value)
        updated == ApplySet(c[i], u.value)
    IN  IF ~q.ok \/ ~u.ok
        THEN [status |-> "CastError", doc |-> Null, coll |-> c]
        ELSE IF i = 0
        THEN [status |-> "ok", doc |-> Null, coll |-> c]
        ELSE IF "_id" \in DOMAIN u.value /\ u.value["_id"] # c[i]._id
        THEN [status |-> "ImmutableField", doc |-> Null, coll |-> c]
        ELSE [status |-> "ok",
              doc |-> IF returnNew THEN updated ELSE c[i],
              coll |-> [c EXCEPT ![i] = updated]]

\* Model.findOneAndDelete(filter).lean(): atomic, returns the removed document
ModelFindOneAndDelete(c, filter) ==
    LET q == Cast(filter)
        i == FirstMatch(c, q.value)
    IN  IF ~q.ok
        THEN [status |-> "CastError", doc |-> Null, coll |-> c]
        ELSE IF i = 0
        THEN [status |-> "ok", doc |-> Null, coll |-> c]
        ELSE [status |-> "ok", doc |-> c[i], coll |-> RemoveAt(c, i)]

(***************************************************************************)
(* AbstractRepository.  Every operation yields what the call returned      *)
(* (status "ok" and ret) or the exception it threw (any other status), and *)
(* the collection it leaves.                                               *)
(***************************************************************************)
\* a create that builds and returns the document but never saves it
RepoCreate_Unsaved(c, ctr, document) ==
    [status |-> "ok", ret |-> Strict([_id |-> NewObjectId(ctr)] @@ document),
     coll |-> c]

RepoCreate(c, ctr, document) ==
    LET createdDocument == Strict([_id |-> NewObjectId(ctr)] @@ document)
        saved == ModelSave(c, createdDocument)
    IN  [status |-> saved.status, ret |-> saved.doc, coll |-> saved.coll]

\* a findOne without the null check: hands the caller the null
RepoFindOne_Unchecked(c, filterQuery) ==
    LET r == ModelFindOne(c, filterQuery)
    IN  [status |-> r.status, ret |-> r.doc, coll |-> r.coll]

RepoFindOne(c, filterQuery) ==
    LET r == ModelFindOne(c, filterQuery)
    IN  IF r.status # "ok"
        THEN [status |-> r.status, ret |-> Null, coll |-> r.coll]
        ELSE IF r.doc = Null
        THEN [status |-> "NotFound", ret |-> Null, coll |-> r.coll]
        ELSE [status |-> "ok", ret |-> r.doc, coll |-> r.coll]

\* a findOneAndUpdate without {new: true}: returns the pre-image
RepoFindOneAndUpdate_Old(c, filterQuery, update) ==
    LET r == ModelFindOneAndUpdate(c, filterQuery, update, FALSE)
    IN  IF r.status # "ok"
        THEN [status |-> r.status, ret |-> Null, coll |-> r.coll]
        ELSE IF r.doc = Null
        THEN [status |-> "NotFound", ret |-> Null, coll |-> r.coll]
        ELSE [status |-> "ok", ret |-> r.doc, coll |-> r.coll]

RepoFindOneAndUpdate(c, filterQuery, update) ==
    LET r == ModelFindOneAndUpdate(c, filterQuery, update, TRUE)
    IN  IF r.status # "ok"
        THEN [status |-> r.status, ret |-> Null, coll |-> r.coll]
        ELSE IF r.doc = Null
        THEN [status |-> "NotFound", ret |-> Null, coll |-> r.coll]
        ELSE [status |-> "ok", ret |-> r.doc, coll |-> r.coll]

\* a find with findOne's not-found check copied into it
RepoFind_Throwing(c, filterQuery) ==
    LET r == ModelFind(c, filterQuery)
    IN  IF r.status = "ok" /\ r.docs = <<>>
        THEN [status |-> "NotFound", ret |-> <<>>, coll |-> r.coll]
        ELSE [status |-> r.status, ret |-> r.docs, coll |-> r.coll]

RepoFind(c, filterQuery) ==
    LET r == ModelFind(c, filterQuery)
    IN  [status |-> r.status, ret |-> r.docs, coll |-> r.coll]

\* a findOneAndDelete that only finds
RepoFindOneAndDelete_Kept(c, filterQuery) ==
    LET r == ModelFindOne(c, filterQuery)
    IN  IF r.status # "ok"
        THEN [status |-> r.status, ret |-> Null, coll |-> r.coll]
        ELSE IF r.doc = Null
        THEN [status |-> "NotFound", ret |-> Null, coll |-> r.coll]
        ELSE [status |-> "ok", ret |-> r.doc, coll |-> r.coll]

RepoFindOneAndDelete(c, filterQuery) ==
    LET r == ModelFindOneAndDelete(c, filterQuery)
    IN  IF r.status # "ok"
        THEN [status |-> r.status, ret |-> Null, coll |-> r.coll]
        ELSE IF r.doc = Null
        THEN [status |-> "NotFound", ret |-> Null, coll |-> r.coll]
        ELSE [status |-> "ok", ret |-> r.doc, coll |-> r.coll]

(***************************************************************************)
(* The inputs the calls are made with.                                     *)
(***************************************************************************)
ObjectIds == {Oid(n) : n \in 1..(MaxCreates + 1)}
Passwords == {Text(p) : p \in Plaintexts}

Part(path, values) == {EmptyObject} \cup {[k \in {path} |-> v] : v \in values}

\* Omit<TDocument, '_id'>
Documents == [email : Emails, password : Passwords]

\* QueryFilter<TDocument>: a conjunction of path equalities
Filters ==
    {a @@ b : a \in Part("_id", ObjectIds), b \in Part("email", {"a@x"})}

\* UpdateQuery<TDocument>: the paths to $set
Updates ==
    {b @@ c : b \in Part("email", Emails),
              c \in Part("password", {Text("pw2")})}

\* what a later call remembers of the call made just before it
RetId(l) ==
    IF l.status = "ok" /\ l.op \in {"create", "findOne", "findOneAndUpdate",
                                      "findOneAndDelete"}
    THEN l.ret._id ELSE Null
After(l) == [op |-> l.op, status |-> l.status, id |-> RetId(l)]

(***************************************************************************)
(* Calls on the repository, one at a time.                                 *)
(***************************************************************************)
Create(document) ==
    /\ idCounter < MaxCreates
    /\ LET r == RepoCreate(coll, idCounter, document)
       IN  /\ coll' = r.coll
           /\ idCounter' = idCounter + 1
           /\ last' = [op |-> "create", document |-> document,
                       status |-> r.status, ret |-> r.ret]
           /\ createdIds' = IF r.status = "ok"
                            THEN createdIds \cup {r.ret._id} ELSE createdIds
    /\ UNCHANGED deletedIds
    /\ UNCHANGED <<concVars, authVars, bootVars>>

FindOne(filterQuery) ==
    /\ LET r == RepoFindOne(coll, filterQuery)
       IN  /\ coll' = r.coll
           /\ last' = [op |-> "findOne", filter |-> filterQuery,
                       status |-> r.status, ret |-> r.ret,
                       after |-> After(last)]
    /\ UNCHANGED <<idCounter, createdIds, deletedIds>>
    /\ UNCHANGED <<concVars, authVars, bootVars>>

FindOneAndUpdate(filterQuery, update) ==
    /\ LET r == RepoFindOneAndUpdate(coll, filterQuery, update)
       IN  /\ coll' = r.coll
           /\ last' = [op |-> "findOneAndUpdate", filter |-> filterQuery,
                       update |-> update, status |-> r.status, ret |-> r.ret]
    /\ UNCHANGED <<idCounter, createdIds, deletedIds>>
    /\ UNCHANGED <<concVars, authVars, bootVars>>

Find(filterQuery) ==
    /\ LET r == RepoFind(coll, filterQuery)
       IN  /\ coll' = r.coll
           /\ last' = [op |-> "find", filter |-> filterQuery,
                       status |-> r.status, ret |-> r.ret]
    /\ UNCHANGED <<idCounter, createdIds, deletedIds>>
    /\ UNCHANGED <<concVars, authVars, bootVars>>

FindOneAndDelete(filterQuery) ==
    /\ LET r == RepoFindOneAndDelete(coll, filterQuery)
       IN  /\ coll' = r.coll
           /\ last' = [op |-> "findOneAndDelete", filter |-> filterQuery,
                       status |-> r.status, ret |-> r.ret]
           /\ deletedIds' = IF r.status = "ok"
                            THEN deletedIds \cup {r.ret._id} ELSE deletedIds
    /\ UNCHANGED <<idCounter, createdIds>>
    /\ UNCHANGED <<concVars, authVars, bootVars>>

\* an empty collection, no request under way, no cookie set
InitWith(expiration) ==
    /\ coll = <<>>
    /\ idCounter = 0
    /\ last = [op |-> "init", status |-> "ok", ret |-> Null]
    /\ createdIds = {}
    /\ deletedIds = {}
    /\ pc = [p \in Requests |-> "idle"]
    /\ call = [p \in Requests |-> Null]
    /\ base = <<>>
    /\ now = StartTicks * TickMs
    /\ jwtExpiration = expiration
    /\ cookie = Null
    /\ issued = {}
    /\ authLast = [op |-> "init"]

\* bootstrap has completed: nothing was pending and the port is open
Started ==
    /\ bootPc = "listening"
    /\ pending = 0
    /\ applied = 0
    /\ dbClient = "closed"
    /\ served = 0
    /\ refused = 0

Init == InitWith(1) /\ Started

Next ==
    \/ \E document \in Documents : Create(document)
    \/ \E f \in Filters : FindOne(f)
    \/ \E f \in Filters, u \in Updates : FindOneAndUpdate(f, u)
    \/ \E f \in Filters : Find(f)
    \/ \E f \in Filters : FindOneAndDelete(f)

Spec == Init /\ [][Next]_vars
(***************************************************************************)
(* UsersService over the UserRepository, called by the UsersResolver.      *)
(***************************************************************************)
\* what callers pass as an identifier: the hex string of an ObjectId, some
\* other string, or the Int the resolver's queries declare
UserIds == {Oid(n) : n \in 1..(MaxUsers + 1)}
RawIds ==
    {ToHexString(id) : id \in UserIds} \cup {Str(<<"1", "2", "3">>)}
        \cup {Num(123)}

CreateUserInputs == [email : Emails, password : Passwords]

\* UpdateUserInput: the id and any of the CreateUserInput fields
UpdateUserInputs ==
    {a @@ b @@ c : a \in {[id |-> raw] : raw \in RawIds},
                   b \in Part("email", Emails),
                   c \in Part("password", Passwords)}

\* JavaScript truthiness of a string
Truthy(str) == str.text # ""

\* create: the input with its password replaced by the awaited bcrypt hash
UsersServiceCreate(c, ctr, createUserInput, salt) ==
    RepoCreate(c, ctr,
               [password |-> BcryptHash(createUserInput.password.text, salt)]
                   @@ createUserInput)

UsersServiceFindAll(c) == RepoFind(c, EmptyObject)

UsersServiceFindOne(c, id) == RepoFindOne(c, [_id |-> id])

\* update: $set of the input, its password (when truthy) replaced by the
\* Promise that hashPassword returned, which is not awaited
UsersServiceUpdate(c, id, updateUserInput) ==
    RepoFindOneAndUpdate(c, [_id |-> id],
        (IF "password" \in DOMAIN updateUserInput
            /\ Truthy(updateUserInput["password"])
         THEN [password |-> PendingHash(updateUserInput["password"].text)]
         ELSE EmptyObject) @@ updateUserInput)

UsersServiceRemove(c, id) == RepoFindOneAndDelete(c, [_id |-> id])

UsersCreate(createUserInput) ==
    /\ idCounter < MaxUsers
    /\ \E salt \in 1..NumSalts :
         LET r == UsersServiceCreate(coll, idCounter, createUserInput, salt)
         IN  /\ coll' = r.coll
             /\ idCounter' = idCounter + 1
             /\ last' = [op |-> "users.create", input |-> createUserInput,
                         status |-> r.status, ret |-> r.ret]
             /\ createdIds' = IF r.status = "ok"
                              THEN createdIds \cup {r.ret._id} ELSE createdIds
    /\ UNCHANGED deletedIds
    /\ UNCHANGED <<concVars, authVars, bootVars>>

UsersFindAll ==
    /\ LET r == UsersServiceFindAll(coll)
       IN  /\ coll' = r.coll
           /\ last' = [op |-> "users.findAll", status |-> r.status,
                       ret |-> r.ret]
    /\ UNCHANGED <<idCounter, createdIds, deletedIds>>
    /\ UNCHANGED <<concVars, authVars, bootVars>>

UsersFindOne(id) ==
    /\ LET r == UsersServiceFindOne(coll, id)
       IN  /\ coll' = r.coll
           /\ last' = [op |-> "users.findOne", id |-> id,
                       status |-> r.status, ret |-> r.ret]
    /\ UNCHANGED <<idCounter, createdIds, deletedIds>>
    /\ UNCHANGED <<concVars, authVars, bootVars>>

\* updateUser: usersService.update(updateUserInput.id, updateUserInput)
UsersUpdate(updateUserInput) ==
    /\ LET r == UsersServiceUpdate(coll, updateUserInput["id"],
                                   updateUserInput)
       IN  /\ coll' = r.coll
           /\ last' = [op |-> "users.update", input |-> updateUserInput,
                       status |-> r.status, ret |-> r.ret]
    /\ UNCHANGED <<idCounter, createdIds, deletedIds>>
    /\ UNCHANGED <<concVars, authVars, bootVars>>

UsersRemove(id) ==
    /\ LET r == UsersServiceRemove(coll, id)
       IN  /\ coll' = r.coll
           /\ last' = [op |-> "users.remove", id |-> id,
                       status |-> r.status, ret |-> r.ret]
           /\ deletedIds' = IF r.status = "ok"
                            THEN deletedIds \cup {r.ret._id} ELSE deletedIds
    /\ UNCHANGED <<idCounter, createdIds>>
    /\ UNCHANGED <<concVars, authVars, bootVars>>

\* update payloads that name _id, as UpdateQuery<TDocument> allows
IdFilters == {[_id |-> id] : id \in UserIds}
IdUpdates ==
    {a @@ b : a \in {[_id |-> id] : id \in UserIds},
              b \in Part("email", Emails)}

NextUsers ==
    \/ \E input \in CreateUserInputs : UsersCreate(input)
    \/ UsersFindAll
    \/ \E id \in RawIds : UsersFindOne(id)
    \/ \E input \in UpdateUserInputs : UsersUpdate(input)
    \/ \E id \in RawIds : UsersRemove(id)
    \/ \E f \in IdFilters, u \in IdUpdates : FindOneAndUpdate(f, u)

UsersSpec == Init /\ [][NextUsers]_vars

\* updates through the repository and through the users service, on
\* documents the repository created
NextUpdate ==
    \/ \E document \in Documents : Create(document)
    \/ \E f \in Filters, u \in Updates : FindOneAndUpdate(f, u)
    \/ \E updateUserInput \in UpdateUserInputs : UsersUpdate(updateUserInput)

UpdateSpec == Init /\ [][NextUpdate]_vars

(***************************************************************************)
(* Concurrent requests.  Each request makes one findOneAndUpdate call: the *)
(* repository sends the store one findOneAndUpdate command, the store runs *)
(* it atomically at some later time, and the awaiting call then checks the *)
(* reply and returns or throws.                                            *)
(***************************************************************************)
ConcDocuments == {[email |-> "a@x", password |-> Text("pw1")]}
ConcFilters == {[_id |-> Oid(n)] : n \in 1..ConcDocs}
ConcUpdates ==
    { [email |-> "b@x"], [password |-> Text("pw2")],
      [email |-> "b@x", password |-> Text("pw1")],
      [email |-> "a@x", password |-> Text("pw2")] }

\* a repository that first finds the document, changes it in memory and then
\* sends the whole changed document as the update
CallCommand_FindThenUpdate(c, filterQuery, update) ==
    LET found == ModelFindOne(c, filterQuery).doc
    IN  [filter |-> filterQuery,
         update |-> IF found = Null THEN update
                    ELSE [k \in (DOMAIN found) \ {"_id"} |->
                             ApplySet(found, update)[k]],
         new |-> TRUE]

\* the command the repository's findOneAndUpdate sends to the store; it reads
\* nothing from the collection
CallCommand(c, filterQuery, update) ==
    [filter |-> filterQuery, update |-> update, new |-> TRUE]

ConcCreate(document) ==
    /\ idCounter < ConcDocs
    /\ LET r == RepoCreate(coll, idCounter, document)
       IN  /\ coll' = r.coll
           /\ idCounter' = idCounter + 1
           /\ createdIds' = IF r.status = "ok"
                            THEN createdIds \cup {r.ret._id} ELSE createdIds
           /\ base' = IF r.status = "ok" THEN Append(base, r.ret) ELSE base
    /\ UNCHANGED <<last, deletedIds, pc, call>>
    /\ UNCHANGED <<authVars, bootVars>>

\* the call is made and the command leaves for the store
ConcCall(p, filterQuery, update) ==
    /\ pc[p] = "idle"
    /\ pc' = [pc EXCEPT ![p] = "sent"]
    /\ call' = [call EXCEPT ![p] =
                   [filter |-> filterQuery, update |-> update,
                    command |-> CallCommand(coll, filterQuery, update)]]
    /\ UNCHANGED <<coll, idCounter, last, createdIds, deletedIds, base>>
    /\ UNCHANGED <<authVars, bootVars>>

\* the store runs the command
ConcStore(p) ==
    /\ pc[p] = "sent"
    /\ LET cmd == call[p].command
           r == ModelFindOneAndUpdate(coll, cmd.filter, cmd.update, cmd.new)
       IN  /\ coll' = r.coll
           /\ call' = [call EXCEPT ![p] =
                          [filter |-> call[p].filter,
                           update |-> call[p].update,
                           reply |-> [status |-> r.status, doc |-> r.doc]]]
    /\ pc' = [pc EXCEPT ![p] = "replied"]
    /\ UNCHANGED <<idCounter, last, createdIds, deletedIds, base>>
    /\ UNCHANGED <<authVars, bootVars>>

\* the awaiting call resumes: it throws NotFound on a null reply and
\* returns the document otherwise
ConcReturn(p) ==
    /\ pc[p] = "replied"
    /\ LET r == call[p].reply
       IN  call' = [call EXCEPT ![p] =
                       [filter |-> call[p].filter, update |-> call[p].update,
                        status |-> IF r.status = "ok" /\ r.doc = Null
                                   THEN "NotFound" ELSE r.status,
                        ret |-> r.doc]]
    /\ pc' = [pc EXCEPT ![p] = "done"]
    /\ UNCHANGED <<coll, idCounter, last, createdIds, deletedIds, base>>
    /\ UNCHANGED <<authVars, bootVars>>

NextConc ==
    \/ \E document \in ConcDocuments : ConcCreate(document)
    \/ \E p \in Requests, f \in ConcFilters, u \in ConcUpdates :
          ConcCall(p, f, u)
    \/ \E p \in Requests : ConcStore(p)
    \/ \E p \in Requests : ConcReturn(p)

ConcSpec == Init /\ [][NextConc]_vars

(***************************************************************************)
(* AuthService: login and logout set the Authentication cookie on the      *)
(* response; the token is verified by whoever receives it back.            *)
(***************************************************************************)
MsPerSecond == 1000
SecondsPerMinute == 60
JwtExpirations == {1, 2}

\* Date.prototype.getSeconds
GetSeconds(t) == (t \div MsPerSecond) % SecondsPerMinute

\* Date.prototype.setSeconds: the other fields are kept and seconds beyond
\* the minute carry into them
SetSeconds(t, sec) ==
    t - GetSeconds(t) * MsPerSecond + sec * MsPerSecond

\* a login that adds the configured seconds as milliseconds
LoginExpires_Milliseconds(t, expiration) == t + expiration

\* expires = new Date(); expires.setSeconds(expires.getSeconds() + JWT_EXPIRATION)
LoginExpires(t, expiration) == SetSeconds(t, GetSeconds(t) + expiration)

\* the TokenPayload login builds from the user
TokenPayload(user) == [_id |-> ToHexString(user._id), email |-> user.email]

\* jwtService.sign: the payload signed with the server's secret, issued at
\* the current second and expiring JWT_EXPIRATION seconds later
JwtSign(payload, t, expiration) ==
    [payload |-> payload, iat |-> t \div MsPerSecond,
     exp |-> (t \div MsPerSecond) + expiration, key |-> "JWT_SECRET"]

\* verification of a token at clock reading t
JwtVerify(token, t) ==
    IF token.key # "JWT_SECRET"
    THEN [status |-> "InvalidSignature", payload |-> Null]
    ELSE IF (t \div MsPerSecond) >= token.exp
    THEN [status |-> "Expired", payload |-> Null]
    ELSE [status |-> "ok", payload |-> token.payload]

\* the cookie login sets: the token, httpOnly, expiring with it
LoginCookie(token, t, expiration) ==
    [name |-> "Authentication", value |-> <<token>>, httpOnly |-> TRUE,
     expires |-> LoginExpires(t, expiration)]

\* a logout that leaves the cookie a second to live
LogoutCookie_Later(t) ==
    [name |-> "Authentication", value |-> <<>>, httpOnly |-> TRUE,
     expires |-> t + MsPerSecond]

\* the cookie logout sets: the empty string, httpOnly, expires = new Date()
LogoutCookie(t) ==
    [name |-> "Authentication", value |-> <<>>, httpOnly |-> TRUE,
     expires |-> t]

Tick ==
    /\ now < (StartTicks + MaxTicks) * TickMs
    /\ now' = now + TickMs
    /\ UNCHANGED <<coll, idCounter, last, createdIds, deletedIds, concVars,
                   jwtExpiration, cookie, issued, authLast>>
    /\ UNCHANGED bootVars

\* POST auth/login, for a user the guard has authenticated
Login(user) ==
    /\ Cardinality(issued) < MaxLogins
    /\ LET token == JwtSign(TokenPayload(user), now, jwtExpiration)
       IN  /\ cookie' = LoginCookie(token, now, jwtExpiration)
           /\ issued' = issued \cup
                  {[token |-> token, at |-> now, user |-> user,
                    expiration |-> jwtExpiration,
                    expires |-> cookie'.expires]}
           /\ authLast' = [op |-> "login", at |-> now, status |-> "ok",
                           ret |-> [success |-> TRUE,
                                    user |-> TokenPayload(user)]]
    /\ UNCHANGED <<coll, idCounter, last, createdIds, deletedIds, concVars,
                   now, jwtExpiration>>
    /\ UNCHANGED bootVars

\* a logout that also wipes the server's store
Logout_Clearing ==
    /\ cookie' = LogoutCookie(now)
    /\ authLast' = [op |-> "logout", at |-> now, status |-> "ok"]
    /\ coll' = <<>>
    /\ UNCHANGED <<idCounter, last, createdIds, deletedIds, concVars,
                   now, jwtExpiration, issued>>
    /\ UNCHANGED bootVars

\* POST auth/logout
Logout ==
    /\ cookie' = LogoutCookie(now)
    /\ authLast' = [op |-> "logout", at |-> now, status |-> "ok"]
    /\ UNCHANGED <<coll, idCounter, last, createdIds, deletedIds, concVars,
                   now, jwtExpiration, issued>>
    /\ UNCHANGED bootVars

\* a token that was issued comes back and is verified
Verify(token) ==
    /\ LET r == JwtVerify(token, now)
       IN  authLast' = [op |-> "verify", at |-> now, token |-> token,
                        status |-> r.status, payload |-> r.payload]
    /\ UNCHANGED <<coll, idCounter, last, createdIds, deletedIds, concVars,
                   now, jwtExpiration, cookie, issued>>
    /\ UNCHANGED bootVars

AuthInit == \E expiration \in JwtExpirations : InitWith(expiration) /\ Started

\* the users that sign up before they log in
AuthUserInputs == {[email |-> e, password |-> Text("pw1")] : e \in Emails}

NextAuth ==
    \/ \E input \in AuthUserInputs : UsersCreate(input)
    \/ Tick
    \/ \E i \in 1..Len(coll) : Login(coll[i])
    \/ Logout
    \/ \E i \in issued : Verify(i.token)

AuthSpec == AuthInit /\ [][NextAuth]_vars

(***************************************************************************)
(* Startup: bootstrap creates the application and listens; listening first *)
(* initialises the modules, which runs DBMigrationService.onModuleInit,    *)
(* and opens the port only when that has returned.                         *)
(***************************************************************************)
\* the steps of bootstrap at which a call can throw: an unhandled rejection
\* ends bootstrap there
ThrowingSteps ==
    {"start", "created", "import", "connect", "up", "close", "initialized"}

\* an up() that is not awaited: onModuleInit goes on while it still runs
UpResolved_NotAwaited(done, todo) == TRUE

\* await migrateMongo.up(db, client) resolves when no migration is pending
UpResolved(done, todo) == done = todo

\* const app = await NestFactory.create(AppModule)
NestFactoryCreate ==
    /\ bootPc = "start"
    /\ bootPc' = "created"
    /\ UNCHANGED <<pending, applied, dbClient, served, refused>>
    /\ UNCHANGED appVars

\* app.listen(PORT) begins: the modules' onModuleInit hooks are run first
AppInit ==
    /\ bootPc = "created"
    /\ bootPc' = "import"
    /\ UNCHANGED <<pending, applied, dbClient, served, refused>>
    /\ UNCHANGED appVars

\* const migrateMongo = await import('migrate-mongo')
MigrateImport ==
    /\ bootPc = "import"
    /\ bootPc' = "connect"
    /\ UNCHANGED <<pending, applied, dbClient, served, refused>>
    /\ UNCHANGED appVars

\* const { db, client } = await migrateMongo.database.connect()
MigrateConnect ==
    /\ bootPc = "connect"
    /\ bootPc' = "up"
    /\ dbClient' = "open"
    /\ UNCHANGED <<pending, applied, served, refused>>
    /\ UNCHANGED appVars

\* migrateMongo.up applies the pending migrations in order, one at a time
MigrateApply ==
    /\ bootPc = "up"
    /\ applied < pending
    /\ applied' = applied + 1
    /\ UNCHANGED <<bootPc, pending, dbClient, served, refused>>
    /\ UNCHANGED appVars

\* the await of up() returns
MigrateUpReturns ==
    /\ bootPc = "up"
    /\ UpResolved(applied, pending)
    /\ bootPc' = "close"
    /\ UNCHANGED <<pending, applied, dbClient, served, refused>>
    /\ UNCHANGED appVars

\* await client.close(); onModuleInit returns
MigrateClose ==
    /\ bootPc = "close"
    /\ bootPc' = "initialized"
    /\ dbClient' = "closed"
    /\ UNCHANGED <<pending, applied, served, refused>>
    /\ UNCHANGED appVars

\* the modules are initialised: app.listen opens the port
HttpListen ==
    /\ bootPc = "initialized"
    /\ bootPc' = "listening"
    /\ UNCHANGED <<pending, applied, dbClient, served, refused>>
    /\ UNCHANGED appVars

\* a step of bootstrap throws
Throw ==
    /\ bootPc \in ThrowingSteps
    /\ bootPc' = "failed"
    /\ UNCHANGED <<pending, applied, dbClient, served, refused>>
    /\ UNCHANGED appVars

\* a request arrives and the application serves it
Serve ==
    /\ served + refused < MaxRequests
    /\ bootPc = "listening"
    /\ served' = served + 1
    /\ UNCHANGED <<bootPc, pending, applied, dbClient, refused>>
    /\ UNCHANGED appVars

\* a request arrives while the port is not open
Refuse ==
    /\ served + refused < MaxRequests
    /\ bootPc # "listening"
    /\ refused' = refused + 1
    /\ UNCHANGED <<bootPc, pending, applied, dbClient, served>>
    /\ UNCHANGED appVars

BootInit ==
    /\ InitWith(1)
    /\ bootPc = "start"
    /\ pending \in 0..MaxMigrations
    /\ applied = 0
    /\ dbClient = "none"
    /\ served = 0
    /\ refused = 0

NextBoot ==
    \/ NestFactoryCreate
    \/ AppInit
    \/ MigrateImport
    \/ MigrateConnect
    \/ MigrateApply
    \/ MigrateUpReturns
    \/ MigrateClose
    \/ HttpListen
    \/ Throw
    \/ Serve
    \/ Refuse

BootSpec == BootInit /\ [][NextBoot]_vars

(***************************************************************************)
(* Properties of the repository.                                           *)
(***************************************************************************)
ById(filter) == DOMAIN filter = {"_id"}
StoredIds(c) == {c[i]._id : i \in 1..Len(c)}
StoredDoc(c, id) == c[CHOOSE i \in 1..Len(c) : c[i]._id = id]

\* C1: every create call succeeds and returns an Entity whose id is none of
\* the ids returned by an earlier create, and whose other fields are exactly
\* the fields the call was given.
C1_CreateFreshIdSameFields ==
    [][last'.op = "create" =>
          /\ last'.status = "ok"
          /\ last'.ret._id \notin createdIds
          /\ DOMAIN last'.ret = DOMAIN last'.document \cup {"_id"}
          /\ \A k \in DOMAIN last'.document : last'.ret[k] = last'.document[k]
      ]_vars

\* a create that succeeded after another create had, and after a delete
C1_Witness ==
    /\ last.op = "create" /\ last.status = "ok"
    /\ Cardinality(createdIds) >= 2
    /\ deletedIds # {}

\* C2: a findOne by the id of the Entity that the call just before it created
\* succeeds and returns an Entity equal to the one create returned.
C2_ReadAfterCreate ==
    [][(/\ last.op = "create" /\ last.status = "ok"
        /\ last'.op = "findOne"
        /\ last'.filter = [_id |-> last.ret._id])
       => (last'.status = "ok" /\ last'.ret = last.ret)]_vars

\* a findOne by id made right after the create of that id, which found it
C2_Witness ==
    /\ last.op = "findOne" /\ last.status = "ok"
    /\ last.after.op = "create" /\ last.after.status = "ok"
    /\ last.filter = [_id |-> last.after.id]

\* C3: a findOne whose filter matches no stored document throws NotFound and
\* returns nothing (no null, empty or default Entity).
C3_FindOneNotFound ==
    [][(last'.op = "findOne" /\ MatchingIndexes(coll, last'.filter) = {})
       => (last'.status = "NotFound" /\ last'.ret = Null)]_vars

\* a findOne on a non-empty collection that matched nothing
C3_Witness ==
    /\ last.op = "findOne" /\ last.status = "NotFound"
    /\ coll # <<>>
    /\ MatchingIndexes(coll, last.filter) = {}

\* C4: find never fails; it returns the empty sequence when nothing matches
\* and otherwise exactly the matching documents, each once.
C4_FindAllMatches ==
    [][last'.op = "find" =>
          /\ last'.status = "ok"
          /\ (MatchingIndexes(coll, last'.filter) = {} => last'.ret = <<>>)
          /\ Len(last'.ret) = Cardinality(MatchingIndexes(coll, last'.filter))
          /\ {last'.ret[i] : i \in 1..Len(last'.ret)}
                = {coll[i] : i \in MatchingIndexes(coll, last'.filter)}
      ]_vars

\* a find on a non-empty collection that matched nothing and returned <<>>
C4_Witness ==
    /\ last.op = "find" /\ last.status = "ok" /\ last.ret = <<>>
    /\ coll # <<>>

\* C5: findOneAndUpdate by an existing id succeeds and returns the document
\* with every updated field at its new value, which is the stored document;
\* a findOne by that id made right after it returns an equal document.
C5_UpdateReturnsPostImage ==
    [][/\ (/\ last'.op = "findOneAndUpdate" /\ ById(last'.filter)
           /\ last'.filter._id \in StoredIds(coll))
          => /\ last'.status = "ok"
             /\ last'.ret._id = last'.filter._id
             /\ \A k \in DOMAIN last'.update : last'.ret[k] = last'.update[k]
             /\ StoredDoc(coll', last'.filter._id) = last'.ret
       /\ (/\ last.op = "findOneAndUpdate" /\ last.status = "ok"
           /\ ById(last.filter)
           /\ last'.op = "findOne" /\ last'.filter = last.filter)
          => (last'.status = "ok" /\ last'.ret = last.ret)
      ]_vars

\* a findOne by id right after an update by that id succeeded
C5_Witness ==
    /\ last.op = "findOne" /\ last.status = "ok" /\ ById(last.filter)
    /\ last.after = [op |-> "findOneAndUpdate", status |-> "ok",
                     id |-> last.filter._id]

\* C6: findOneAndDelete by an existing id returns the document as it was
\* stored just before and removes it; from then on no document has that id,
\* so every later findOne by it throws NotFound.
C6_DeleteReturnsPreImage ==
    /\ [][/\ (/\ last'.op = "findOneAndDelete" /\ ById(last'.filter)
              /\ last'.filter._id \in StoredIds(coll))
             => /\ last'.status = "ok"
                /\ last'.ret = StoredDoc(coll, last'.filter._id)
                /\ last'.filter._id \in deletedIds'
          /\ (/\ last'.op = "findOne" /\ ById(last'.filter)
              /\ last'.filter._id \in deletedIds)
             => last'.status = "NotFound"
         ]_vars
    /\ [](deletedIds \cap StoredIds(coll) = {})

\* a findOne by a deleted id that threw NotFound after a later create
C6_Witness ==
    /\ last.op = "findOne" /\ last.status = "NotFound" /\ ById(last.filter)
    /\ last.filter._id \in deletedIds
    /\ idCounter > last.filter._id.n
(***************************************************************************)
(* Properties of identifiers under the UsersService.                       *)
(***************************************************************************)
IdsOf(c) == [i \in 1..Len(c) |-> c[i]._id]

\* C8: a stored Entity's id never changes: every step leaves the ids of the
\* stored documents as they were, except that a create appends one document
\* with an id no create returned before and a delete removes one document;
\* in particular no findOneAndUpdate or UsersService.update changes an id.
C8_IdNeverChanges ==
    [][\/ IdsOf(coll') = IdsOf(coll)
       \/ /\ last'.op \in {"create", "users.create"}
          /\ Len(coll') = Len(coll) + 1
          /\ SubSeq(IdsOf(coll'), 1, Len(coll)) = IdsOf(coll)
          /\ coll'[Len(coll')]._id \notin createdIds
       \/ /\ last'.op \in {"findOneAndDelete", "users.remove"}
          /\ \E i \in 1..Len(coll) : IdsOf(coll') = RemoveAt(IdsOf(coll), i)
      ]_vars

\* an update whose payload named another _id was made on a stored document
\* and was refused
C8_Witness ==
    /\ last.op = "findOneAndUpdate" /\ last.status = "ImmutableField"
    /\ "_id" \in DOMAIN last.update
    /\ last.filter._id \in {coll[i]._id : i \in 1..Len(coll)}
(***************************************************************************)
(* Properties of concurrent updates.                                       *)
(***************************************************************************)
\* the document a request's call got back from the store, once it has
Returned(p) == IF pc[p] = "done" THEN call[p].ret ELSE call[p].reply.doc

\* the requests whose update the store has applied to the document id
AppliedTo(id) ==
    {p \in Requests : /\ pc[p] \in {"replied", "done"}
                      /\ call[p].filter = [_id |-> id]
                      /\ Returned(p) # Null}

\* some order of the requests in S, each update applied whole to the result
\* of the one before, takes doc to final and gives each request the
\* document it got back
RECURSIVE SerialOrderExists(_, _, _)
SerialOrderExists(doc, S, final) ==
    IF S = {} THEN doc = final
    ELSE \E p \in S :
            /\ Returned(p) = ApplySet(doc, call[p].update)
            /\ SerialOrderExists(ApplySet(doc, call[p].update), S \ {p}, final)

\* C7: however concurrent findOneAndUpdate calls on one id interleave, the
\* stored document and the documents the calls got back are those of the
\* updates applied one at a time, each whole, in some serial order.
C7_UpdatesSerializable ==
    \A i \in 1..Len(base) :
        /\ base[i]._id \in StoredIds(coll)
        /\ SerialOrderExists(base[i], AppliedTo(base[i]._id),
                             StoredDoc(coll, base[i]._id))

\* two calls on the same id, both in flight at once, have both returned
\* after updating it with different values for the same field
C7_Witness ==
    \E p, q \in Requests :
        /\ p # q /\ pc[p] = "done" /\ pc[q] = "done"
        /\ call[p].status = "ok" /\ call[q].status = "ok"
        /\ call[p].filter = call[q].filter
        /\ "password" \in DOMAIN call[p].update
        /\ "password" \in DOMAIN call[q].update
        /\ call[p].update["password"] # call[q].update["password"]
        /\ call[p].ret # call[q].ret
(***************************************************************************)
(* Properties of the session manager.                                      *)
(***************************************************************************)
Seconds(t) == t \div MsPerSecond

\* C9: a login made at clock reading T with N configured issues a token that
\* expires at second T+N and a cookie whose expires is T+N; the token
\* verified in second T+N+1 is Expired, and verified in second T+N-1 it is
\* valid and yields the user's hex _id and email.
C9_LoginExpiry ==
    /\ \A i \in issued :
          /\ i.token.exp = Seconds(i.at) + i.expiration
          /\ i.expires = i.at + i.expiration * MsPerSecond
    /\ (cookie # Null /\ cookie.value # <<>>) =>
          \E i \in issued : /\ cookie.value = <<i.token>>
                            /\ cookie.expires = i.expires
                            /\ cookie.httpOnly
    /\ authLast.op = "verify" =>
          \A i \in issued :
             i.token = authLast.token =>
                /\ Seconds(authLast.at) = Seconds(i.at) + i.expiration + 1
                      => authLast.status = "Expired"
                /\ Seconds(authLast.at) = Seconds(i.at) + i.expiration - 1
                      => /\ authLast.status = "ok"
                         /\ authLast.payload.email = i.user.email
                         /\ CastObjectId(authLast.payload._id)
                               = [ok |-> TRUE, id |-> i.user._id]

\* a token issued part-way through a second is verified, and accepted, in
\* the last second but one before it expires, two seconds after its login
C9_Witness ==
    /\ authLast.op = "verify" /\ authLast.status = "ok"
    /\ \E i \in issued :
          /\ i.token = authLast.token
          /\ i.at % MsPerSecond # 0
          /\ i.expiration = 2
          /\ Seconds(authLast.at) = Seconds(i.at) + i.expiration - 1

\* C10: logout sets the cookie named Authentication to the empty string,
\* httpOnly, with an expires no later than the time logout was invoked.
C10_LogoutCookie ==
    authLast.op = "logout" =>
        /\ cookie.name = "Authentication"
        /\ cookie.value = <<>>
        /\ cookie.httpOnly
        /\ cookie.expires <= authLast.at

\* a logout made after a login had set the cookie
C10_Witness ==
    /\ authLast.op = "logout"
    /\ issued # {}
    /\ cookie.value = <<>>
\* C11: a token is valid exactly while the clock is before its expiry,
\* whatever logouts were made since it was issued, and a logout changes
\* nothing on the server: the store, the configuration and the tokens
\* issued are as before it.
C11_LogoutStateless ==
    /\ [](authLast.op = "verify" =>
            (authLast.status = "ok"
                <=> Seconds(authLast.at) < authLast.token.exp))
    /\ [][(authLast'.op = "logout" /\ authLast' # authLast) =>
            UNCHANGED <<coll, idCounter, last, createdIds, deletedIds,
                        jwtExpiration, issued>>]_vars

\* a token is verified and accepted after a logout that followed its login
C11_Witness ==
    /\ authLast.op = "verify" /\ authLast.status = "ok"
    /\ coll # <<>>
    /\ cookie # Null /\ cookie.value = <<>>
    /\ \E i \in issued :
          /\ i.token = authLast.token
          /\ i.at < cookie.expires
          /\ cookie.expires <= authLast.at
(***************************************************************************)
(* Properties of the users service.                                        *)
(***************************************************************************)
\* C12: every stored password is a digest, never a plaintext or a pending
\* hash, and after a create or an update that supplied the plaintext p for
\* a stored user, that user's stored password is the digest of p.
C12_PasswordIsLatestDigest ==
    /\ \A i \in 1..Len(coll) : coll[i].password.kind = "bcrypt"
    /\ (last.op = "users.create" /\ last.status = "ok") =>
          /\ last.ret._id \in StoredIds(coll)
          /\ StoredDoc(coll, last.ret._id).password.text
                = last.input.password.text
    /\ (/\ last.op = "users.update"
        /\ "password" \in DOMAIN last.input
        /\ CastObjectId(last.input["id"]).ok
        /\ CastObjectId(last.input["id"]).id \in StoredIds(coll)) =>
          StoredDoc(coll, CastObjectId(last.input["id"]).id).password.text
                = last.input["password"].text
\* C13: a successful findOneAndUpdate or UsersService.update changes, on the
\* one document it matched, only the fields its update names, and leaves
\* every other document as it was; an unsuccessful one changes nothing.
C13_UpdateIsPartial ==
    [][last'.op \in {"findOneAndUpdate", "users.update"} =>
         IF last'.status = "ok"
         THEN LET named == IF last'.op = "findOneAndUpdate"
                           THEN DOMAIN last'.update ELSE DOMAIN last'.input
              IN  /\ Len(coll') = Len(coll)
                  /\ last'.ret._id \in StoredIds(coll)
                  /\ \A j \in 1..Len(coll) :
                        IF coll[j]._id = last'.ret._id
                        THEN /\ DOMAIN coll'[j] = DOMAIN coll[j]
                             /\ \A k \in DOMAIN coll[j] \ named :
                                   coll'[j][k] = coll[j][k]
                        ELSE coll'[j] = coll[j]
         ELSE coll' = coll
      ]_vars

\* an update of the email alone succeeded on one of two stored users, and
\* the other user has another email
C13_Witness ==
    /\ last.op = "users.update" /\ last.status = "ok"
    /\ DOMAIN last.input = {"id", "email"}
    /\ Len(coll) = 2
    /\ last.ret.password \in Passwords
    /\ \E j \in 1..Len(coll) :
          coll[j]._id # last.ret._id /\ coll[j].email # last.ret.email
(***************************************************************************)
(* Frame properties of the repository.                                     *)
(***************************************************************************)
\* C14: findOne and find leave the store as it was, and so do a
\* findOneAndUpdate and a findOneAndDelete that fail with NotFound; a
\* findOneAndUpdate never adds or removes a document; the store changes only
\* in a successful create, findOneAndUpdate or findOneAndDelete.
C14_StoreChangesOnlyOnSuccess ==
    [][/\ last'.op \in {"findOne", "find"} => coll' = coll
       /\ (/\ last'.op \in {"findOneAndUpdate", "findOneAndDelete"}
           /\ last'.status = "NotFound") => coll' = coll
       /\ last'.op = "findOneAndUpdate" =>
             /\ StoredIds(coll') = StoredIds(coll)
             /\ (FirstMatch(coll, last'.filter) = 0 =>
                    last'.status = "NotFound")
       /\ coll' # coll =>
             /\ last'.op \in {"create", "findOneAndUpdate",
                              "findOneAndDelete"}
             /\ last'.status = "ok"
      ]_vars

\* a findOneAndUpdate that matched none of the stored documents
C14_Witness ==
    /\ last.op = "findOneAndUpdate" /\ last.status = "NotFound"
    /\ coll # <<>>
    /\ FirstMatch(coll, last.filter) = 0
(***************************************************************************)
(* Properties of the startup.                                              *)
(***************************************************************************)
\* C15: the application listens, and serves a request, only after the
\* migration runner has connected, applied every pending migration and
\* closed its client; once a step of the startup has failed, the application
\* never listens and serves nothing.
C15_MigratedBeforeListening ==
    /\ []((bootPc = "listening" \/ served > 0) =>
             (applied = pending /\ dbClient = "closed"))
    /\ [](bootPc = "failed" => served = 0)
    /\ [][bootPc = "failed" => bootPc' = "failed"]_vars

\* with several migrations pending, requests were refused during the
\* startup and served after it
C15_Witness ==
    /\ bootPc = "listening"
    /\ pending > 1 /\ applied = pending
    /\ refused > 0 /\ served > 0
\* C16: a find, an update or a delete by an identifier that is no valid
\* 24-hex-character identifier fails with InvalidIdentifier.
C16_MalformedIdIsInvalidIdentifier ==
    /\ (last.op \in {"users.findOne", "users.remove"}
           /\ ~CastObjectId(last.id).ok) =>
          last.status = "InvalidIdentifier"
    /\ (last.op = "users.update" /\ ~CastObjectId(last.input["id"]).ok) =>
          last.status = "InvalidIdentifier"
====
